---------------------------- MODULE Spec2Model ----------------------------
(***************************************************************************)
(* A model of the Flask blog in src/app.py: the Posts and Contact tables,  *)
(* the per-client session, the upload folder and one action per route.     *)
(*                                                                         *)
(* Text is a sequence of one-character strings, so that str.strip(),       *)
(* str.rsplit() and str.lower() are computed rather than assumed.          *)
(* An optional value (session.get("user"), request.files.get("file1")) is  *)
(* <<>> for None and <<v>> for the value v.                                *)
(***************************************************************************)
EXTENDS Integers, Sequences, FiniteSets

(***************************************************************************)
(* Bounds of the model.                                                    *)
(***************************************************************************)
\* the largest serial number the store hands out to a post
MaxSrNo == 2
\* how far the wall clock advances
MaxTime == 1
\* how many contact messages a run submits
MaxContacts == 3
\* the largest configured page size (params["no_of_posts"])
MaxPerPage == 3
\* the largest number of rows of a seeded Posts table (listing only)
MaxTotal == 6

(***************************************************************************)
(* Text.                                                                   *)
(***************************************************************************)
\* the characters str.strip() removes (those the inputs below use)
Whitespace == {" ", "\t", "\n"}

RECURSIVE lstrip(_)
lstrip(t) == IF t # <<>> /\ Head(t) \in Whitespace THEN lstrip(Tail(t)) ELSE t

RECURSIVE rstrip(_)
rstrip(t) ==
  IF t # <<>> /\ t[Len(t)] \in Whitespace
  THEN rstrip(SubSeq(t, 1, Len(t) - 1))
  ELSE t

\* str.strip()
strip(t) == rstrip(lstrip(t))

UpperCase == <<"A","B","C","D","E","F","G","H","I","J","K","L","M",
               "N","O","P","Q","R","S","T","U","V","W","X","Y","Z">>
LowerCase == <<"a","b","c","d","e","f","g","h","i","j","k","l","m",
               "n","o","p","q","r","s","t","u","v","w","x","y","z">>

\* str.lower()
lower(t) ==
  [i \in 1..Len(t) |->
     IF \E k \in 1..Len(UpperCase) : UpperCase[k] = t[i]
     THEN LowerCase[CHOOSE k \in 1..Len(UpperCase) : UpperCase[k] = t[i]]
     ELSE t[i]]

None == <<>>
Some(v) == <<v>>


(***************************************************************************)
(* Inputs: the texts the requests of the model carry.                      *)
(***************************************************************************)
Admin == <<"a","d","m","i","n">>
Secret == <<"p","w">>

\* values of ADMIN_USERNAME and ADMIN_PASSWORD ("" is the getenv default)
AdminCredentials == {<<Admin, Secret>>, <<Admin, <<>> >>, << <<>>, <<>> >>}
\* values of GMAIL_USER / GMAIL_PASS ("" is the getenv default)
GmailUsers == {<<>>, <<"m","@","x">>}
GmailPasses == {<<>>, <<"k">>}

\* what a login form may carry: the right value, nothing, near misses
LoginUsernames == {Admin, <<>>, <<" ">> \o Admin}
LoginPasswords == {Secret, <<>>, Secret \o <<" ">>}

Sessions == {"s1", "s2"}
Methods == {"GET", "POST"}

(***************************************************************************)
(* State.                                                                  *)
(***************************************************************************)
VARIABLES
  params,    \* the merged configuration (read-only after start)
  session,   \* session[s]: the "user" key of client s's session, optional
  Posts,     \* the Posts table: a set of rows
  Contact,   \* the Contact table: a set of rows
  uploads,   \* the file names present in UPLOAD_FOLDER
  now,       \* datetime.now()
  id_seq,    \* the store's serial-number sequence (serial backend only)
  granted,   \* history: "granted" once s logs in, "revoked" once it then
             \* logs out, "never" before its first login
  mailer,    \* the outcome of the last request's mail dispatch
  req,       \* the last request
  resp       \* the response to it

vars == <<params, session, Posts, Contact, uploads, now, id_seq, granted,
          mailer, req, resp>>

store == <<Posts, Contact, uploads, id_seq>>

(***************************************************************************)
(* Requests and responses.                                                 *)
(***************************************************************************)
Request(route, method, s, arg) ==
  [route |-> route, method |-> method, sid |-> s, arg |-> arg]

Response(status, body, to, flash, rows, ctx) ==
  [status |-> status, body |-> body, to |-> to, flash |-> flash, rows |-> rows,
   ctx |-> ctx]

\* render_template(name, ...) with the rows handed to the template
Render(body, rows) == Response(200, body, "", "", rows, <<>>)
\* redirect(url_for(endpoint)), after flash(message) when there is one
Redirect(to, flash) == Response(302, "", to, flash, <<>>, <<>>)
\* abort(404) / first_or_404 / get_or_404, rendered by page_not_found
NotFound == Response(404, "404.html", "", "", <<>>, <<>>)
\* an unhandled exception, rendered by internal_server_error
ServerError == Response(500, "500.html", "", "", <<>>, <<>>)
\* the router's answer to a method the route does not list
MethodNotAllowed == Response(405, "", "", "", <<>>, <<>>)

RedirectLogin == Redirect("login", "")

\* the methods each @app.route accepts
RouteMethods(route) ==
  CASE route = "index" -> {"GET"}
    [] route = "post" -> {"GET"}
    [] route = "contact" -> {"GET", "POST"}
    [] route = "login" -> {"GET", "POST"}
    [] route = "logout" -> {"GET"}
    [] route = "dashboard" -> {"GET"}
    [] route = "edit" -> {"GET", "POST"}
    [] route = "delete" -> {"POST"}
    [] route = "upload" -> {"GET", "POST"}

AdminRoutes == {"dashboard", "edit", "delete", "upload"}

(***************************************************************************)
(* Helpers.                                                                *)
(***************************************************************************)
is_admin_logged_in_Inverted(s) == session[s] # Some(params.admin_username)

is_admin_logged_in(s) == session[s] = Some(params.admin_username)

\* rows ordered by date: every order the store may return (ties in any order)
RECURSIVE OrderByDateDesc(_)
OrderByDateDesc(rows) ==
  IF rows = {} THEN {<<>>}
  ELSE UNION {{<<r>> \o t : t \in OrderByDateDesc(rows \ {r})} :
                r \in {x \in rows : \A y \in rows : y.date <= x.date}}

RECURSIVE OrderByDateAsc(_)
OrderByDateAsc(rows) ==
  IF rows = {} THEN {<<>>}
  ELSE UNION {{<<r>> \o t : t \in OrderByDateAsc(rows \ {r})} :
                r \in {x \in rows : \A y \in rows : x.date <= y.date}}

(***************************************************************************)
(* Auth routes.                                                            *)
(***************************************************************************)
credentials_match_UsernameOnly(username, password) ==
  username = params.admin_username

credentials_match(username, password) ==
  /\ username = params.admin_username
  /\ password = params.admin_password

login(s, method, username, password) ==
  /\ req' = Request("login", method, s,
                    [username |-> username, password |-> password])
  /\ IF method \notin RouteMethods("login")
     THEN resp' = MethodNotAllowed /\ UNCHANGED <<session, granted>>
     ELSE IF method = "POST" /\ credentials_match(username, password)
     THEN /\ session' = [session EXCEPT ![s] = Some(username)]
          /\ granted' = [granted EXCEPT ![s] = "granted"]
          /\ resp' = Redirect("dashboard", "")
     ELSE /\ resp' = Response(200, "login.html", "",
                       IF method = "POST" THEN "Invalid username or password"
                       ELSE "", <<>>, <<>>)
          /\ UNCHANGED <<session, granted>>
  /\ UNCHANGED <<params, store, now, mailer>>

logout_KeepsUser(s, method) ==
  /\ req' = Request("logout", method, s, <<>>)
  /\ IF method \notin RouteMethods("logout")
     THEN resp' = MethodNotAllowed /\ UNCHANGED <<session, granted>>
     ELSE /\ resp' = Redirect("login", "Logged out.")
          /\ granted' = [granted EXCEPT ![s] = IF @ = "never" THEN @
                                                 ELSE "revoked"]
          /\ UNCHANGED session
  /\ UNCHANGED <<params, store, now, mailer>>

logout(s, method) ==
  /\ req' = Request("logout", method, s, <<>>)
  /\ IF method \notin RouteMethods("logout")
     THEN resp' = MethodNotAllowed /\ UNCHANGED <<session, granted>>
     ELSE /\ session' = [session EXCEPT ![s] = None]
          /\ granted' = [granted EXCEPT ![s] = IF @ = "never" THEN @
                                                 ELSE "revoked"]
          /\ resp' = Redirect("login", "Logged out.")
  /\ UNCHANGED <<params, store, now, mailer>>

dashboard(s, method) ==
  /\ req' = Request("dashboard", method, s, <<>>)
  /\ IF method \notin RouteMethods("dashboard")
     THEN resp' = MethodNotAllowed
     ELSE IF ~is_admin_logged_in(s)
     THEN resp' = RedirectLogin
     ELSE \E rows \in OrderByDateAsc(Posts) :
            resp' = Render("dashboard.html", rows)
  /\ UNCHANGED <<params, session, granted, store, now, mailer>>


(***************************************************************************)
(* The Posts table.                                                        *)
(***************************************************************************)
\* Posts.query.get(sr_no): the rows with that primary key (none or one)
get(sr_no) == {r \in Posts : r.sr_no = sr_no}

\* Posts.query.filter_by(slug=slug)
filter_by_slug(slug) == {r \in Posts : r.slug = slug}

\* the serial number the store gives the next row: SQLite's rowid is one more
\* than the largest in the table, a serial column draws from a sequence
next_sr_no ==
  IF params.database = "sqlite"
  THEN IF Posts = {} THEN 1
       ELSE 1 + CHOOSE n \in {r.sr_no : r \in Posts} :
                  \A r \in Posts : r.sr_no <= n
  ELSE id_seq + 1

\* the UNIQUE constraint on Posts.slug, checked by the store at commit
slug_unique_Unchecked(rows) == TRUE

slug_unique(rows) ==
  \A r1 \in rows : \A r2 \in rows : r1.slug = r2.slug => r1.sr_no = r2.sr_no

\* the form fields as edit() reads them: request.form.get(k, "").strip()
form_fields(form) ==
  [title |-> strip(form.title), slug |-> strip(form.slug),
   content |-> strip(form.content), tagline |-> strip(form.tagline),
   img_file |-> strip(form.img_file)]

\* Posts(title=..., ...) added to the session: date defaults to datetime.now
new_post(f) ==
  [sr_no |-> next_sr_no, title |-> f.title, slug |-> f.slug,
   content |-> f.content, tagline |-> f.tagline, date |-> now,
   img_file |-> f.img_file]

\* post.title = title; ...; post.img_file = img_file
assign_fields_DropsTagline(post, f) ==
  [post EXCEPT !.title = f.title, !.slug = f.slug, !.content = f.content,
               !.img_file = f.img_file]

assign_fields(post, f) ==
  [post EXCEPT !.title = f.title, !.slug = f.slug, !.content = f.content,
               !.tagline = f.tagline, !.img_file = f.img_file]

\* the table db.session.commit() is asked to write
edited(sr_no, f) ==
  IF sr_no = 0
  THEN Posts \cup {new_post(f)}
  ELSE {IF r.sr_no = sr_no THEN assign_fields(r, f) ELSE r : r \in Posts}

\* the store has a serial number left for one more row
may_insert == next_sr_no <= MaxSrNo

edit(s, method, sr_no, form) ==
  LET f == form_fields(form)
      after == edited(sr_no, f)
  IN
  /\ req' = Request("edit", method, s, [sr_no |-> sr_no, form |-> form])
  /\ IF method \notin RouteMethods("edit")
     THEN resp' = MethodNotAllowed /\ UNCHANGED <<Posts, id_seq>>
     ELSE IF ~is_admin_logged_in(s)
     THEN resp' = RedirectLogin /\ UNCHANGED <<Posts, id_seq>>
     ELSE IF sr_no # 0 /\ get(sr_no) = {}
     THEN resp' = NotFound /\ UNCHANGED <<Posts, id_seq>>
     ELSE IF method = "GET"
     THEN /\ \E rows \in OrderByDateAsc(get(sr_no)) :
               resp' = Render("edit.html", rows)
          /\ UNCHANGED <<Posts, id_seq>>
     ELSE /\ sr_no = 0 => may_insert
          /\ id_seq' = IF sr_no = 0 /\ params.database # "sqlite"
                       THEN id_seq + 1 ELSE id_seq
          /\ IF slug_unique(after)
             THEN /\ Posts' = after
                  /\ resp' = Redirect("dashboard", "Post saved successfully!")
             ELSE \* IntegrityError: the transaction is rolled back
                  /\ resp' = ServerError
                  /\ UNCHANGED Posts
  /\ UNCHANGED <<params, session, granted, Contact, uploads, now, mailer>>

delete_LookupFirst(s, method, sr_no) ==
  /\ req' = Request("delete", method, s, [sr_no |-> sr_no])
  /\ IF method \notin RouteMethods("delete")
     THEN resp' = MethodNotAllowed /\ UNCHANGED Posts
     ELSE IF get(sr_no) = {}
     THEN resp' = NotFound /\ UNCHANGED Posts
     ELSE IF ~is_admin_logged_in(s)
     THEN resp' = RedirectLogin /\ UNCHANGED Posts
     ELSE /\ Posts' = Posts \ get(sr_no)
          /\ resp' = Redirect("dashboard", "Post deleted successfully!")
  /\ UNCHANGED <<params, session, granted, Contact, uploads, id_seq, now,
                 mailer>>

delete_KeepsRow(s, method, sr_no) ==
  /\ req' = Request("delete", method, s, [sr_no |-> sr_no])
  /\ IF method \notin RouteMethods("delete")
     THEN resp' = MethodNotAllowed /\ UNCHANGED Posts
     ELSE IF ~is_admin_logged_in(s)
     THEN resp' = RedirectLogin /\ UNCHANGED Posts
     ELSE IF get(sr_no) = {}
     THEN resp' = NotFound /\ UNCHANGED Posts
     ELSE /\ resp' = Redirect("dashboard", "Post deleted successfully!")
          /\ UNCHANGED Posts
  /\ UNCHANGED <<params, session, granted, Contact, uploads, id_seq, now,
                 mailer>>

delete(s, method, sr_no) ==
  /\ req' = Request("delete", method, s, [sr_no |-> sr_no])
  /\ IF method \notin RouteMethods("delete")
     THEN resp' = MethodNotAllowed /\ UNCHANGED Posts
     ELSE IF ~is_admin_logged_in(s)
     THEN resp' = RedirectLogin /\ UNCHANGED Posts
     ELSE IF get(sr_no) = {}
     THEN resp' = NotFound /\ UNCHANGED Posts
     ELSE /\ Posts' = Posts \ get(sr_no)
          /\ resp' = Redirect("dashboard", "Post deleted successfully!")
  /\ UNCHANGED <<params, session, granted, Contact, uploads, id_seq, now,
                 mailer>>

\* /post/<slug>
post(s, method, post_slug) ==
  /\ req' = Request("post", method, s, [slug |-> post_slug])
  /\ IF method \notin RouteMethods("post")
     THEN resp' = MethodNotAllowed
     ELSE IF filter_by_slug(post_slug) = {}
     THEN resp' = NotFound
     ELSE \E r \in filter_by_slug(post_slug) :
            resp' = Render("post.html", <<r>>)
  /\ UNCHANGED <<params, session, granted, store, now, mailer>>


(***************************************************************************)
(* Listing.                                                                *)
(***************************************************************************)
\* math.ceil(total / per_page), per_page > 0
ceil_div_Floor(total, per_page) == total \div per_page

ceil_div(total, per_page) == (total + per_page - 1) \div per_page

Max(a, b) == IF a >= b THEN a ELSE b
Min(a, b) == IF a <= b THEN a ELSE b

\* request.args.get("page", default=1, type=int): absent or not a number -> 1
page_arg(arg) == IF arg = None THEN 1 ELSE arg[1]

last_page_of(total, per_page) == Max(1, ceil_div(total, per_page))

\* min(max(1, page), last_page)
clamp(page, last_page) == Min(Max(1, page), last_page)

\* .offset(n).limit(m) of an ordered result
offset_limit_OffByOne(ordered, n, m) ==
  SubSeq(ordered, n + 1, Min(n + m + 1, Len(ordered)))

offset_limit(ordered, n, m) == SubSeq(ordered, n + 1, Min(n + m, Len(ordered)))

index(s, method, arg) ==
  LET per_page == params.no_of_posts
      total == Cardinality(Posts)
      last_page == last_page_of(total, per_page)
      page == clamp(page_arg(arg), last_page)
  IN
  /\ req' = Request("index", method, s, [page |-> arg])
  /\ IF method \notin RouteMethods("index")
     THEN resp' = MethodNotAllowed
     ELSE \E ordered \in OrderByDateDesc(Posts) :
            resp' = Response(200, "index.html", "", "",
                      offset_limit(ordered, (page - 1) * per_page, per_page),
                      [page |-> page, last_page |-> last_page, total |-> total,
                       prev |-> IF page > 1 THEN Some(page - 1) ELSE None,
                       next |-> IF page < last_page THEN Some(page + 1)
                                ELSE None])
  /\ UNCHANGED <<params, session, granted, store, now, mailer>>

(***************************************************************************)
(* Uploads.                                                                *)
(***************************************************************************)
ALLOWED_EXTENSIONS ==
  {<<"p","n","g">>, <<"j","p","g">>, <<"j","p","e","g">>, <<"g","i","f">>,
   <<"w","e","b","p">>}

\* filename.rsplit(".", 1)[1]: what follows the last "."
after_last_dot(filename) ==
  LET last == CHOOSE i \in 1..Len(filename) :
                /\ filename[i] = "."
                /\ \A j \in (i + 1)..Len(filename) : filename[j] # "."
  IN SubSeq(filename, last + 1, Len(filename))

allowed_file(filename) ==
  /\ \E i \in 1..Len(filename) : filename[i] = "."
  /\ lower(after_last_dot(filename)) \in ALLOWED_EXTENSIONS

\* werkzeug's secure_filename on the file names of the model: each run of
\* path separators and white space becomes one "_" (none at the end), then
\* leading and trailing "." and "_" are stripped
RECURSIVE join_words(_, _)
join_words(t, gap) ==
  IF t = <<>> THEN <<>>
  ELSE IF Head(t) \in {"/", "\\"} \cup Whitespace
       THEN join_words(Tail(t), TRUE)
       ELSE (IF gap THEN <<"_">> ELSE <<>>) \o <<Head(t)>>
            \o join_words(Tail(t), FALSE)

RECURSIVE strip_dots(_)
strip_dots(t) ==
  IF t # <<>> /\ Head(t) \in {".", "_"} THEN strip_dots(Tail(t))
  ELSE IF t # <<>> /\ t[Len(t)] \in {".", "_"}
       THEN strip_dots(SubSeq(t, 1, Len(t) - 1))
       ELSE t

secure_filename(filename) == strip_dots(join_words(filename, FALSE))

\* file: request.files.get("file1"), None or the uploaded file's name
upload(s, method, file) ==
  /\ req' = Request("upload", method, s, [file |-> file])
  /\ IF method \notin RouteMethods("upload")
     THEN resp' = MethodNotAllowed /\ UNCHANGED uploads
     ELSE IF ~is_admin_logged_in(s)
     THEN resp' = RedirectLogin /\ UNCHANGED uploads
     ELSE IF method = "GET"
     THEN resp' = Render("upload form", <<>>) /\ UNCHANGED uploads
     ELSE IF file = None \/ file[1] = <<>>
     THEN resp' = Redirect("upload", "No file selected.") /\ UNCHANGED uploads
     ELSE IF ~allowed_file(file[1])
     THEN resp' = Redirect("upload", "Invalid file type.") /\ UNCHANGED uploads
     ELSE /\ uploads' = uploads \cup {secure_filename(file[1])}
          /\ resp' = Redirect("dashboard", "Uploaded successfully.")
  /\ UNCHANGED <<params, session, granted, Posts, Contact, id_seq, now,
                 mailer>>

(***************************************************************************)
(* Contact.                                                                *)
(***************************************************************************)
\* params.get("gmail_user") and params.get("gmail_pass")
mail_configured == params.gmail_user # <<>> /\ params.gmail_pass # <<>>

\* what mail.send_message may do
MailOutcomes == {"sent", "raised"}

\* contact() once the row is committed: the try block and what follows it.
\* mail is "sent", "raised" (caught and logged) or "skipped"
after_commit_Propagates(entry, outcome) ==
  IF mail_configured /\ outcome = "raised"
  THEN /\ mailer' = "raised"
       /\ resp' = ServerError
       /\ Contact' = Contact \cup {entry}
  ELSE /\ mailer' = IF mail_configured THEN outcome ELSE "skipped"
       /\ resp' = Redirect("contact", "Thanks! Your message has been sent.")
       /\ Contact' = Contact \cup {entry}

after_commit(entry, outcome) ==
  /\ Contact' = Contact \cup {entry}
  /\ mailer' = IF mail_configured
               THEN (IF outcome = "raised" THEN "logged" ELSE outcome)
               ELSE "skipped"
  /\ resp' = Redirect("contact", "Thanks! Your message has been sent.")

contact(s, method, form, outcome) ==
  LET entry == [sr_no |-> Cardinality(Contact) + 1,
                name |-> strip(form.name), email |-> strip(form.email),
                phone_no |-> strip(form.phone), msg |-> strip(form.msg),
                date |-> now]
  IN
  /\ req' = Request("contact", method, s, [form |-> form, mail |-> outcome])
  /\ IF method \notin RouteMethods("contact")
     THEN resp' = MethodNotAllowed /\ UNCHANGED <<Contact, mailer>>
     ELSE IF method = "GET"
     THEN resp' = Render("contact.html", <<>>) /\ UNCHANGED <<Contact, mailer>>
     ELSE /\ Cardinality(Contact) < MaxContacts
          /\ after_commit(entry, outcome)
  /\ UNCHANGED <<params, session, granted, Posts, uploads, id_seq, now>>

(***************************************************************************)
(* The wall clock: datetime.now() does not fall while the model runs; two  *)
(* requests may read the same value.                                       *)
(***************************************************************************)
Tick ==
  /\ now < MaxTime
  /\ now' = now + 1
  /\ UNCHANGED <<params, session, granted, store, mailer, req, resp>>


(***************************************************************************)
(* Inputs of the requests.                                                 *)
(***************************************************************************)
\* int(params.get("no_of_posts", 5))
DefaultPerPage == 5

RawSlugs == {<<"a">>, <<" ","a">>, <<"b">>}
\* title, content, tagline, img_file
Bodies == {<< <<"A">>, <<"c","1">>, <<"t","1">>, <<"i",".","p","n","g">> >>,
           << <<" ","B"," ">>, <<"c","2","\n">>, <<"t","2">>, <<>> >>}

EditForms ==
  {[title |-> b[1], slug |-> g, content |-> b[2], tagline |-> b[3],
    img_file |-> b[4]] : g \in RawSlugs, b \in Bodies}

\* two forms with different slugs, for the runs that are about who may write
FewForms == {f \in EditForms : f.title = <<"A">> /\ f.slug \in {<<"a">>, <<"b">>}}

\* a request without form fields: request.form.get(k, "") gives ""
NoForm ==
  [title |-> <<>>, slug |-> <<>>, content |-> <<>>, tagline |-> <<>>,
   img_file |-> <<>>]

SrNos == 0..(MaxSrNo + 1)

Slugs == {strip(g) : g \in RawSlugs} \cup {<<"z">>}

\* request.files.get("file1"): no file, a program, an image sent with a path
Files ==
  {None, Some(<<"x",".","e","x","e">>),
   Some(<<".",".","/","a"," ","b",".","G","I","F">>)}

ContactForms ==
  {[name |-> n, email |-> e, phone |-> <<"1">>, msg |-> <<"h","i"," ">>] :
     n \in {<<>>, <<" ","b","o","b">>}, e \in {<<>>, <<"b","@","x">>}}

NoContactForm == [name |-> <<>>, email |-> <<>>, phone |-> <<>>, msg |-> <<>>]

PageArgs == {None} \cup {Some(n) : n \in (-1)..(MaxTotal + 2)}

(***************************************************************************)
(* Start: the tables are created empty, nobody is logged in.               *)
(***************************************************************************)
Start(p) ==
  /\ params = p
  /\ session = [s \in Sessions |-> None]
  /\ granted = [s \in Sessions |-> "never"]
  /\ Posts = {}
  /\ Contact = {}
  /\ uploads = {}
  /\ now = 0
  /\ id_seq = 0
  /\ mailer = "idle"
  /\ req = Request("none", "GET", "s1", <<>>)
  /\ resp = Render("", <<>>)

Params(u, p, gu, gp, n, d) ==
  [admin_username |-> u, admin_password |-> p, gmail_user |-> gu,
   gmail_pass |-> gp, no_of_posts |-> n, database |-> d]

(***************************************************************************)
(* Spec: every route and method, two clients, the admin credentials set or *)
(* left at their defaults.                                                 *)
(***************************************************************************)
Init ==
  \E c \in AdminCredentials :
    Start(Params(c[1], c[2], <<>>, <<>>, DefaultPerPage, "sqlite"))

Next ==
  \E s \in Sessions :
    \/ \E u \in LoginUsernames : \E p \in LoginPasswords : login(s, "POST", u, p)
    \/ login(s, "GET", <<>>, <<>>)
    \/ \E method \in Methods : logout(s, method)
    \/ \E method \in Methods : dashboard(s, method)
    \/ \E n \in SrNos : \E form \in FewForms : edit(s, "POST", n, form)
    \/ \E n \in SrNos : edit(s, "GET", n, NoForm)
    \/ \E method \in Methods : \E n \in SrNos : delete(s, method, n)
    \/ \E file \in Files : upload(s, "POST", file)
    \/ upload(s, "GET", None)
    \/ \E method \in Methods : index(s, method, None)
    \/ \E method \in Methods : post(s, method, <<"a">>)

Spec == Init /\ [][Next]_vars

(***************************************************************************)
(* SpecPosts: the admin's client creating, editing and deleting posts on   *)
(* either store while the clock runs.                                      *)
(***************************************************************************)
InitPosts ==
  \E d \in {"sqlite", "serial"} :
    Start(Params(Admin, Secret, <<>>, <<>>, DefaultPerPage, d))

NextPosts ==
  \/ login("s1", "POST", Admin, Secret)
  \/ \E n \in SrNos : \E form \in EditForms : edit("s1", "POST", n, form)
  \/ \E n \in SrNos : edit("s1", "GET", n, NoForm)
  \/ \E n \in SrNos : delete("s1", "POST", n)
  \/ \E g \in Slugs : post("s1", "GET", g)
  \/ index("s1", "GET", None)
  \/ Tick

SpecPosts == InitPosts /\ [][NextPosts]_vars

(***************************************************************************)
(* SpecPage: the listing of a table of 0..MaxTotal posts, some of them     *)
(* created at the same time, under every page size up to MaxPerPage.       *)
(***************************************************************************)
\* the slug "s", "ss", ... of the table's i-th post
SeedSlug(i) == [k \in 1..i |-> "s"]

\* a table the admin reaches by creating `total` posts, `burst` per clock tick
Seeded(total, burst) ==
  {[sr_no |-> i, title |-> <<"A">>, slug |-> SeedSlug(i), content |-> <<>>,
    tagline |-> <<>>, date |-> (i - 1) \div burst, img_file |-> <<>>] :
     i \in 1..total}

InitPage ==
  \E total \in 0..MaxTotal : \E burst \in {1, 2} : \E n \in 1..MaxPerPage :
    /\ params = Params(Admin, Secret, <<>>, <<>>, n, "sqlite")
    /\ session = [s \in Sessions |-> None]
    /\ granted = [s \in Sessions |-> "never"]
    /\ Posts = Seeded(total, burst)
    /\ Contact = {}
    /\ uploads = {}
    /\ now = MaxTotal
    /\ id_seq = 0
    /\ mailer = "idle"
    /\ req = Request("none", "GET", "s1", <<>>)
    /\ resp = Render("", <<>>)

NextPage == \E method \in Methods : \E arg \in PageArgs : index("s1", method, arg)

SpecPage == InitPage /\ [][NextPage]_vars

(***************************************************************************)
(* SpecContact: contact submissions under every mail configuration.        *)
(***************************************************************************)
InitContact ==
  \E gu \in GmailUsers : \E gp \in GmailPasses :
    Start(Params(Admin, Secret, gu, gp, DefaultPerPage, "sqlite"))

NextContact ==
  \/ \E form \in ContactForms : \E outcome \in MailOutcomes :
       contact("s1", "POST", form, outcome)
  \/ contact("s1", "GET", NoContactForm, "sent")
  \/ Tick

SpecContact == InitContact /\ [][NextContact]_vars

(***************************************************************************)
(* Properties.  They read the state, the last request and its response;    *)
(* what a request found before it ran is read from the unprimed state of   *)
(* the step that served it.                                                *)
(***************************************************************************)
\* the session of client s holds the configured admin username
HasAdminIdentity(s) == session[s] = Some(params.admin_username)

\* this step served a request to `route` (the clock did not merely advance)
Served(route) == req'.route = route /\ now' = now

\* this step served a request to `route` with `method`
ServedWith(route, method) == Served(route) /\ req'.method = method

\* C1 as stated: without the admin identity every admin route redirects to
\* login whatever the HTTP method and changes neither Posts nor the upload
\* folder, so every change of either was made by an admin-route request
\* whose session held the admin username at that moment.
C1_AnyMethodRedirects ==
  [][/\ \A route \in AdminRoutes :
          Served(route) /\ ~HasAdminIdentity(req'.sid)
            => resp' = RedirectLogin /\ Posts' = Posts /\ uploads' = uploads
     /\ (Posts' # Posts \/ uploads' # uploads)
          => req'.route \in AdminRoutes /\ HasAdminIdentity(req'.sid)]_vars

\* C1 amended: the redirect is the answer to every method the route accepts
\* (the router answers the others with 405); under every method nothing is
\* changed, and every change of Posts or of the upload folder was made by an
\* admin-route request whose session held the admin username at that moment.
C1_AcceptedMethodsRedirect ==
  [][/\ \A route \in AdminRoutes :
          Served(route) /\ ~HasAdminIdentity(req'.sid)
            => /\ resp' = IF req'.method \in RouteMethods(route)
                          THEN RedirectLogin ELSE MethodNotAllowed
               /\ Posts' = Posts /\ uploads' = uploads
     /\ (Posts' # Posts \/ uploads' # uploads)
          => req'.route \in AdminRoutes /\ HasAdminIdentity(req'.sid)]_vars

\* a delete of an existing post by a client without the admin identity was
\* redirected to login while another client is logged in as admin
C1_Witness ==
  /\ req.route = "delete" /\ req.method = "POST"
  /\ ~HasAdminIdentity(req.sid)
  /\ \E s \in Sessions : HasAdminIdentity(s)
  /\ \E r \in Posts : r.sr_no = req.arg.sr_no
  /\ resp = RedirectLogin

\* C2 as stated: a POST to login stores the username as the session identity
\* and redirects to the dashboard iff username and password equal the
\* configured ones; otherwise the session identity is unset after the request.
C2_FailureUnsetsIdentity ==
  [][ServedWith("login", "POST") =>
       LET match == /\ req'.arg.username = params.admin_username
                    /\ req'.arg.password = params.admin_password
           success == /\ resp' = Redirect("dashboard", "")
                      /\ session'[req'.sid] = Some(req'.arg.username)
       IN /\ success <=> match
          /\ ~match => session'[req'.sid] = None]_vars

\* C2 amended: ... otherwise the login form is rendered again with the
\* invalid-credentials notice and the session identity is left as it was
\* (unset if it was unset, still set if the client was logged in).
C2_FailureKeepsIdentity ==
  [][ServedWith("login", "POST") =>
       LET match == /\ req'.arg.username = params.admin_username
                    /\ req'.arg.password = params.admin_password
           success == /\ resp' = Redirect("dashboard", "")
                      /\ session'[req'.sid] = Some(req'.arg.username)
       IN /\ success <=> match
          /\ ~match => /\ session'[req'.sid] = session[req'.sid]
                       /\ resp'.status = 200 /\ resp'.body = "login.html"
                       /\ resp'.flash = "Invalid username or password"]_vars

\* a logged-in client posted the right username with a wrong password and is
\* still logged in
C2_Witness ==
  /\ req.route = "login" /\ req.method = "POST"
  /\ req.arg.username = params.admin_username
  /\ req.arg.password # params.admin_password
  /\ resp.flash = "Invalid username or password"
  /\ HasAdminIdentity(req.sid)

\* C3: a session holds the admin identity only if it logged in successfully
\* and has not logged out since; logout clears the identity whether or not
\* one was set and redirects to login; an admin-route request of a session
\* that has not logged in since its last logout is redirected to login.
C3_IdentityOnlyBetweenLoginAndLogout ==
  /\ \A s \in Sessions : HasAdminIdentity(s) => granted[s] = "granted"
  /\ req.route = "logout" /\ req.method = "GET"
       => session[req.sid] = None /\ resp = Redirect("login", "Logged out.")
  /\ req.route \in AdminRoutes /\ req.method \in RouteMethods(req.route)
       /\ granted[req.sid] # "granted"
       => resp = RedirectLogin

\* a client that logged in and out again was sent from /edit to login
C3_Witness ==
  /\ req.route = "edit" /\ req.method = "POST"
  /\ granted[req.sid] = "revoked"
  /\ resp = RedirectLogin

\* C10: without the admin identity an admin route answers with the same
\* redirect to login whatever Posts holds: never a 404, for an existing post
\* as for a missing one.
C10_RedirectWhateverThePosts ==
  req.route \in AdminRoutes /\ ~HasAdminIdentity(req.sid)
    => /\ resp.status # 404
       /\ req.method \in RouteMethods(req.route) => resp = RedirectLogin

\* a client without the admin identity asked to delete a post that does not
\* exist, while others do, and was redirected
C10_Witness ==
  /\ req.route = "delete" /\ req.method = "POST"
  /\ ~HasAdminIdentity(req.sid)
  /\ Posts # {}
  /\ \A r \in Posts : r.sr_no # req.arg.sr_no
  /\ resp = RedirectLogin

\* the row r after an edit that submitted `form`: the five form fields,
\* trimmed, and r's own serial number and creation time
Updated(r, form) ==
  [sr_no |-> r.sr_no, date |-> r.date, title |-> strip(form.title),
   slug |-> strip(form.slug), content |-> strip(form.content),
   tagline |-> strip(form.tagline), img_file |-> strip(form.img_file)]

\* a post other than number n already has the slug that `form` submits
SlugTaken(n, form) ==
  \E r \in Posts : r.slug = strip(form.slug) /\ r.sr_no # n

Saved == Redirect("dashboard", "Post saved successfully!")

\* C4 as stated: for the admin, a POST to edit with identifier 0 always adds
\* one row and leaves the others as they were; with the identifier of an
\* existing post it always sets that row's title, slug, content, tagline and
\* image file name and changes nothing else.
C4_AlwaysInsertsOrUpdates ==
  [][ServedWith("edit", "POST") /\ HasAdminIdentity(req'.sid) =>
       LET n == req'.arg.sr_no
           form == req'.arg.form
       IN /\ n = 0 => /\ Cardinality(Posts') = Cardinality(Posts) + 1
                      /\ Posts \subseteq Posts'
          /\ n # 0 /\ (\E r \in Posts : r.sr_no = n)
               => Posts' = {IF r.sr_no = n THEN Updated(r, form) ELSE r :
                              r \in Posts}]_vars

\* C4 amended: ... unless another post already has the submitted slug
\* (trimmed): then the store rejects the commit, the request ends in the 500
\* page and Posts is unchanged. Otherwise the insert adds exactly one row,
\* which carries the trimmed form fields and the current time, and the update
\* changes only the five fields of that row.
C4_InsertsOrUpdatesUnlessSlugTaken ==
  [][ServedWith("edit", "POST") /\ HasAdminIdentity(req'.sid) =>
       LET n == req'.arg.sr_no
           form == req'.arg.form
       IN /\ n = 0 /\ ~SlugTaken(n, form)
               => /\ Cardinality(Posts') = Cardinality(Posts) + 1
                  /\ Posts \subseteq Posts'
                  /\ \A r \in Posts' \ Posts :
                       /\ Updated(r, form) = r
                       /\ r.date = now
                       /\ \A q \in Posts : q.sr_no # r.sr_no
                  /\ resp' = Saved
          /\ n # 0 /\ (\E r \in Posts : r.sr_no = n) /\ ~SlugTaken(n, form)
               => /\ Posts' = {IF r.sr_no = n THEN Updated(r, form) ELSE r :
                                 r \in Posts}
                  /\ resp' = Saved
          /\ (n = 0 \/ \E r \in Posts : r.sr_no = n) /\ SlugTaken(n, form)
               => Posts' = Posts /\ resp' = ServerError]_vars

\* the admin changed one of two posts some time after it was created: it has
\* the submitted fields and its old creation time
C4_Witness ==
  /\ req.route = "edit" /\ req.method = "POST" /\ req.arg.sr_no # 0
  /\ resp = Saved
  /\ Cardinality(Posts) = 2
  /\ \E r \in Posts : /\ r.sr_no = req.arg.sr_no
                      /\ r = Updated(r, req.arg.form)
                      /\ r.tagline # <<>>
                      /\ r.date < now

\* C5: for the admin, deleting an identifier no post has ends in NotFound and
\* leaves Posts unchanged; deleting an existing one removes that row and no
\* other. From then on no post has that identifier or that slug, so a second
\* delete and a lookup by slug end in NotFound and the listing does not hold
\* the row, until a later successful edit stores a post again: rows appear in
\* Posts only by a saved edit, and lookups and listings return rows of Posts.
C5_DeleteRemovesExactlyThatRow ==
  /\ [][ServedWith("delete", "POST") /\ HasAdminIdentity(req'.sid) =>
          LET found == {r \in Posts : r.sr_no = req'.arg.sr_no}
          IN IF found = {}
             THEN resp' = NotFound /\ Posts' = Posts
             ELSE /\ Cardinality(found) = 1
                  /\ Posts' = Posts \ found
                  /\ resp' = Redirect("dashboard", "Post deleted successfully!")
                  /\ \A r \in found : \A q \in Posts' :
                       q.sr_no # r.sr_no /\ q.slug # r.slug]_vars
  /\ [][~(Posts' \subseteq Posts) => ServedWith("edit", "POST") /\ resp' = Saved]_vars
  /\ [](/\ req.route = "post" /\ req.method = "GET" =>
            IF \E r \in Posts : r.slug = req.arg.slug
            THEN /\ resp.status = 200 /\ Len(resp.rows) = 1
                 /\ resp.rows[1] \in Posts
                 /\ resp.rows[1].slug = req.arg.slug
            ELSE resp = NotFound
        /\ req.route = "index" /\ req.method = "GET" =>
            \A i \in 1..Len(resp.rows) : resp.rows[i] \in Posts)

\* the admin deleted one post and another is still there
C5_Witness ==
  /\ req.route = "delete" /\ req.method = "POST"
  /\ resp = Redirect("dashboard", "Post deleted successfully!")
  /\ Posts # {}
  /\ \A r \in Posts : r.sr_no # req.arg.sr_no

Thanks == Redirect("contact", "Thanks! Your message has been sent.")

\* C7: a POST to /contact always adds exactly one row to Contact and ends
\* with the success notice and the redirect, whether the mail credentials are
\* absent, the send succeeds or the transport raises; no row is ever taken
\* back.
C7_ContactAlwaysStored ==
  /\ [][ServedWith("contact", "POST") =>
          /\ Cardinality(Contact') = Cardinality(Contact) + 1
          /\ Contact \subseteq Contact'
          /\ \A c \in Contact' \ Contact :
               /\ c.name = strip(req'.arg.form.name)
               /\ c.email = strip(req'.arg.form.email)
               /\ c.msg = strip(req'.arg.form.msg)
          /\ resp' = Thanks]_vars
  /\ [][Contact \subseteq Contact']_vars

\* with mail configured the transport raised on the second message; both
\* rows are there and the response is the success redirect
C7_Witness ==
  /\ req.route = "contact" /\ req.method = "POST"
  /\ params.gmail_user # <<>> /\ params.gmail_pass # <<>>
  /\ req.arg.mail = "raised"
  /\ mailer = "logged"
  /\ Cardinality(Contact) = 2
  /\ resp = Thanks

\* the page number a listing request asks for
Requested == IF req.arg.page = None THEN 1 ELSE req.arg.page[1]

\* a listing request was served
Listed == req.route = "index" /\ req.method = "GET"

\* C8: with T posts and page size P the listing's last page is the least
\* L >= 1 with L * P >= T, that is max(1, ceil(T / P)), and the page shown
\* is the requested one clamped into 1..L: never a rejection.
C8_LastPageAndClamp ==
  Listed =>
    LET T == Cardinality(Posts)
        P == params.no_of_posts
        L == resp.ctx.last_page
    IN /\ resp.status = 200
       /\ resp.ctx.total = T
       /\ L >= 1 /\ L * P >= T
       /\ L > 1 => (L - 1) * P < T
       /\ resp.ctx.page \in 1..L
       /\ Requested \in 1..L => resp.ctx.page = Requested
       /\ Requested < 1 => resp.ctx.page = 1
       /\ Requested > L => resp.ctx.page = L

\* a request beyond the last page of a table whose last page is not full
C8_Witness ==
  /\ Listed
  /\ resp.ctx.last_page >= 3
  /\ Requested > resp.ctx.last_page
  /\ resp.ctx.page = resp.ctx.last_page
  /\ Cardinality(Posts) % params.no_of_posts # 0

\* rows is what stands at positions k+1 .. k+Len(rows) in some ordering of
\* Posts by descending date: k other posts, none older than any row, come
\* before it, and the remaining ones, none newer than any row, after it
IsWindow(rows, k) ==
  LET shown == {rows[i] : i \in 1..Len(rows)}
      rest == Posts \ shown
  IN /\ shown \subseteq Posts
     /\ Cardinality(shown) = Len(rows)
     /\ \A i \in 1..Len(rows) : \A j \in 1..Len(rows) :
          i < j => rows[i].date >= rows[j].date
     /\ \E before \in SUBSET rest :
          /\ Cardinality(before) = k
          /\ \A b \in before : \A r \in shown : b.date >= r.date
          /\ \A a \in rest \ before : \A r \in shown : a.date <= r.date

\* how many rows page `page` of T posts holds at page size P
PageLength(T, P, page) ==
  IF T - (page - 1) * P >= P THEN P
  ELSE IF T - (page - 1) * P >= 0 THEN T - (page - 1) * P ELSE 0

\* C9 as stated: a page holds at most P posts, in strictly descending order
\* of creation time: the rows at positions (page-1)*P .. (page-1)*P+P-1 of
\* the descending order of all posts.
C9_StrictlyDescendingWindow ==
  Listed =>
    LET P == params.no_of_posts
        rows == resp.rows
    IN /\ Len(rows) <= P
       /\ Len(rows) = PageLength(Cardinality(Posts), P, resp.ctx.page)
       /\ \A i \in 1..Len(rows) : \A j \in 1..Len(rows) :
            i < j => rows[i].date > rows[j].date
       /\ IsWindow(rows, (resp.ctx.page - 1) * P)

\* C9 amended: a page holds at most P posts, none of them older than the one
\* after it (posts created at the same time follow each other in an order the
\* store chooses): the rows at positions (page-1)*P .. (page-1)*P+P-1 of an
\* ordering of all posts by descending creation time.
C9_DescendingWindow ==
  Listed =>
    LET P == params.no_of_posts
        rows == resp.rows
    IN /\ Len(rows) <= P
       /\ Len(rows) = PageLength(Cardinality(Posts), P, resp.ctx.page)
       /\ IsWindow(rows, (resp.ctx.page - 1) * P)

\* the second page or a later one shows two posts created at the same time,
\* and is the last, not full
C9_Witness ==
  /\ Listed
  /\ resp.ctx.page >= 2
  /\ resp.ctx.page = resp.ctx.last_page
  /\ Len(resp.rows) = 2 /\ params.no_of_posts = 3
  /\ resp.rows[1].date = resp.rows[2].date

=============================================================================
